---------------------------- MODULE Spec2Model ----------------------------
(***************************************************************************)
(* A model of buildbot's IRC status target, master/buildbot/status/irc.py: *)
(*   IRC               the status service (construction, attach, stop)     *)
(*   IrcStatusFactory  the supervisor of the connection (reconnect policy) *)
(*   IrcStatusBot      one session (keepalive, inbound dispatch, sends)    *)
(* Python strings are sequences of one-character strings; Python's None is *)
(* the value None below, which no string over the alphabet equals.         *)
(***************************************************************************)
EXTENDS Integers, Sequences, FiniteSets, TLC

VARIABLES
    \* ---- the IRC service and its constructor arguments
    args,          \* [allowForce, allowShutdown, useSSL] as given to IRC()
    have_ssl,      \* whether twisted.internet.ssl could be imported
    svc,           \* "new" | "constructed" | "failed"
    raised,        \* the exception IRC.__init__ left with, or "none"
    f_created,     \* whether self.f = IrcStatusFactory(...) has run
    client,        \* the transport client attached: "none" | "TCPClient" | "SSLClient"
    attached,      \* setServiceParent has run
    running,       \* "idle" | "running" | "stopped"
    \* ---- the supervisor (IrcStatusFactory)
    shuttingDown,  \* f.shuttingDown
    control,       \* f.control: "None" | "IControl"
    p,             \* f.p: index into sessions of the last built session, 0 for None
    \* ---- the transport (twisted connector and reactor)
    connector,     \* "disconnected" | "connecting" | "connected"
    conn,          \* the session bound to the open connection, 0 if none
    reconnect,     \* pending reactor.callLater(delay, connector.connect) calls
    \* ---- the sessions built so far (IrcStatusBot instances)
    sessions,      \* sequence of [live, keepAlive, control, quits]
    nShutdown,     \* calls of f.shutdown() so far
    \* ---- one session's conversation state
    bot,           \* [nickname, password, channels, pm_to_nicks, noticeOnChannel]
    contacts,      \* StatusBot.contacts: the keys <<user, channel>> of the Contacts
    ret,           \* what the last getContact returned: the Contact's key
    inp,           \* the inbound event under study: [user, channel, message]
    \* ---- what the last handler was and what it did
    lastOp,        \* [op, a]: the handler and its arguments
    effects        \* the calls the handler made, in order: records [k, a]

svcVars  == <<args, have_ssl, svc, raised, f_created, client, attached, running>>
supVars  == <<shuttingDown, control, p, connector, conn, reconnect, sessions, nShutdown>>
botVars  == <<bot, contacts, ret, inp>>
vars     == <<svcVars, supVars, botVars, lastOp, effects>>

-----------------------------------------------------------------------------
(* Bounds of the model. *)
MaxSessions      == 2   \* sessions built by buildProtocol
MaxShutdownCalls == 2   \* calls of shutdown(), directly or by stopService
MaxMsgLen        == 4   \* length of an inbound message or action text

-----------------------------------------------------------------------------
(* Python values and strings. *)

None == <<"<None>">>

Op(name, a)  == [op |-> name, a |-> a]
Eff(kind, a) == [k |-> kind, a |-> a]

\* Constructor arguments are Python literals, written as their repr.
PyValues == {"True", "False", "1", "0", "'yes'", "None"}

\* int(v) for the values that are numbers (bool is a subclass of int), else -1.
PyNum(v) == CASE v \in {"True", "1"}  -> 1
              [] v \in {"False", "0"} -> 0
              [] OTHER                -> -1

\* a == b in Python: numbers compare by value, True == 1 and False == 0.
PyEq(a, b) == IF PyNum(a) >= 0 /\ PyNum(b) >= 0 THEN PyNum(a) = PyNum(b) ELSE a = b

\* x in t for a tuple t: some element compares equal.
PyInTuple(x, t) == \E i \in 1..Len(t) : PyEq(x, t[i])

\* bool(v)
PyTruthy(v) == v \in {"True", "1", "'yes'"}

-----------------------------------------------------------------------------
(* Strings.                                                                 *)

\* The characters inbound text is made of.
Alphabet == {"b", "B", ":", ",", " "}

\* All strings over S of length at most n.
StringsUpTo(S, n) == UNION {[1..k -> S] : k \in 0..n}

\* c.lower() for one character.
LowerChar(c) == CASE c = "A" -> "a"
                  [] c = "B" -> "b"
                  [] c = "C" -> "c"
                  [] OTHER   -> c

\* s.lower()
Lower(s) == [i \in 1..Len(s) |-> LowerChar(s[i])]

\* bool(s) for s a string or None
Truthy(s) == s # None /\ s # <<>>

\* s.startswith(prefix)
StartsWith(s, prefix) ==
    /\ Len(s) >= Len(prefix)
    /\ SubSeq(s, 1, Len(prefix)) = prefix

\* s[n:]
From(s, n) == SubSeq(s, n + 1, Len(s))

\* s.split(sep, 1)[0]: s up to the first sep, all of s if there is none.
RECURSIVE SplitFirst(_, _)
SplitFirst(s, sep) ==
    IF s = <<>> \/ Head(s) = sep THEN <<>>
    ELSE <<Head(s)>> \o SplitFirst(Tail(s), sep)

\* sub in s: scan s for a place where sub starts.
RECURSIVE Contains(_, _)
Contains(s, sub) ==
    IF StartsWith(s, sub) THEN TRUE
    ELSE IF s = <<>> THEN FALSE
    ELSE Contains(Tail(s), sub)

\* One character as UTF-8 with errors='replace': an ASCII character is its
\* own byte, U+00E9 is two bytes, a lone surrogate cannot be encoded and
\* becomes '?'.
Utf8(c) == CASE c = "U+00E9" -> <<"0xC3", "0xA9">>
             [] c = "U+D800" -> <<"?">>
             [] OTHER        -> <<c>>

\* s.encode('utf-8', 'replace')
RECURSIVE Encode(_)
Encode(s) == IF s = <<>> THEN <<>> ELSE Utf8(Head(s)) \o Encode(Tail(s))

-----------------------------------------------------------------------------
(* The IRC service: construction, attachment, start.                        *)

BoolTuple == <<"True", "False">>

\* config.error(msg): a configuration error is fatal, construction stops.
config_error ==
    /\ svc' = "failed"
    /\ raised' = "ConfigErrors"
    /\ UNCHANGED <<f_created, client>>

\* Mutant: without TLS support the constructor falls back to plain TCP.
IRC__init___sslFallback ==
    /\ svc = "new"
    /\ IF \/ ~PyInTuple(args.allowForce, BoolTuple)
          \/ ~PyInTuple(args.allowShutdown, BoolTuple)
       THEN config_error
       ELSE /\ svc' = "constructed"
            /\ raised' = "none"
            /\ f_created' = TRUE
            /\ client' = IF args.useSSL /\ have_ssl THEN "SSLClient" ELSE "TCPClient"
    /\ lastOp' = Op("IRC.__init__", <<>>)
    /\ effects' = <<>>
    /\ UNCHANGED <<args, have_ssl, attached, running, supVars, botVars>>

\* IRC.__init__: validate the flags, create the supervisor, attach the client.
IRC__init__ ==
    /\ svc = "new"
    /\ IF \/ ~PyInTuple(args.allowForce, BoolTuple)
          \/ ~PyInTuple(args.allowShutdown, BoolTuple)
       THEN config_error
       ELSE IF args.useSSL /\ ~have_ssl
            THEN /\ svc' = "failed"
                 /\ raised' = "RuntimeError"
                 /\ f_created' = TRUE
                 /\ client' = "none"
            ELSE /\ svc' = "constructed"
                 /\ raised' = "none"
                 /\ f_created' = TRUE
                 /\ client' = IF args.useSSL THEN "SSLClient" ELSE "TCPClient"
    /\ lastOp' = Op("IRC.__init__", <<>>)
    /\ effects' = <<>>
    /\ UNCHANGED <<args, have_ssl, attached, running, supVars, botVars>>

\* Mutant: the Control capability is wired whatever allowForce is.
setServiceParent_always ==
    /\ svc = "constructed"
    /\ ~attached
    /\ attached' = TRUE
    /\ control' = "IControl"
    /\ lastOp' = Op("setServiceParent", <<>>)
    /\ effects' = <<>>
    /\ UNCHANGED <<args, have_ssl, svc, raised, f_created, client, running,
                   shuttingDown, p, connector, conn, reconnect, sessions,
                   nShutdown, botVars>>

\* IRC.setServiceParent: wire the Control capability if allowForce.
setServiceParent ==
    /\ svc = "constructed"
    /\ ~attached
    /\ attached' = TRUE
    /\ control' = IF PyTruthy(args.allowForce) THEN "IControl" ELSE control
    /\ lastOp' = Op("setServiceParent", <<>>)
    /\ effects' = <<>>
    /\ UNCHANGED <<args, have_ssl, svc, raised, f_created, client, running,
                   shuttingDown, p, connector, conn, reconnect, sessions,
                   nShutdown, botVars>>

\* The client service starts: the connector makes its first attempt.
startService ==
    /\ svc = "constructed"
    /\ running = "idle"
    /\ running' = "running"
    /\ connector' = "connecting"
    /\ lastOp' = Op("startService", <<>>)
    /\ effects' = <<>>
    /\ UNCHANGED <<args, have_ssl, svc, raised, f_created, client, attached,
                   shuttingDown, control, p, conn, reconnect, sessions,
                   nShutdown, botVars>>

-----------------------------------------------------------------------------
(* The supervisor and the sessions it builds. A handler maps the state it  *)
(* reads, the record s, to the state it leaves; s.eff collects its calls.  *)

Sup == [shuttingDown |-> shuttingDown, control |-> control, p |-> p,
        connector |-> connector, conn |-> conn, reconnect |-> reconnect,
        sessions |-> sessions, eff |-> <<>>]

SetSup(s) ==
    /\ shuttingDown' = s.shuttingDown
    /\ control' = s.control
    /\ p' = s.p
    /\ connector' = s.connector
    /\ conn' = s.conn
    /\ reconnect' = s.reconnect
    /\ sessions' = s.sessions
    /\ effects' = s.eff

Farewell == "buildmaster reconfigured: bot disconnecting"
NotScheduling == "not scheduling reconnection attempt"

\* IrcStatusBot.__init__: a fresh session, its keepalive call not started.
IrcStatusBot__init__ ==
    [live |-> TRUE, keepAlive |-> FALSE, control |-> "None", quits |-> 0]

\* IrcStatusBot.connectionMade: start the keepalive call.
connectionMade(s, i) ==
    [s EXCEPT !.sessions[i].keepAlive = TRUE]

\* self._keepAliveCall.stop(): a LoopingCall asserts that it is running.
LoopingCall_stop(s, i) ==
    IF s.sessions[i].keepAlive
    THEN [s EXCEPT !.sessions[i].keepAlive = FALSE]
    ELSE [s EXCEPT !.eff = Append(@, Eff("raise", <<"AssertionError">>))]

\* Mutant: the override stops the keepalive call and forgets the protocol's
\* own connectionLost.
connectionLost_noBase(s, i) ==
    IF s.sessions[i].keepAlive
    THEN LoopingCall_stop(s, i)
    ELSE s

\* Mutant: the keepalive call is stopped without asking whether it runs; an
\* exception ends the handler.
connectionLost_alwaysStop(s, i) ==
    LET s1 == LoopingCall_stop(s, i)
    IN IF s1.eff # s.eff THEN s1 ELSE [s1 EXCEPT !.sessions[i].live = FALSE]

\* IrcStatusBot.connectionLost: stop the keepalive call if it runs, then the
\* protocol's own connectionLost: the session is no longer live.
connectionLost(s, i) ==
    LET s1 == IF s.sessions[i].keepAlive
              THEN LoopingCall_stop(s, i)
              ELSE s
    IN [s1 EXCEPT !.sessions[i].live = FALSE]

\* irc.IRCClient.quit on session i.
quit(s, i, message) ==
    [s EXCEPT !.sessions[i].quits = @ + 1,
              !.eff = Append(@, Eff("quit", <<message>>))]

\* IrcStatusFactory.shutdown
shutdown(s) ==
    LET s1 == [s EXCEPT !.shuttingDown = TRUE]
    IN IF s1.p # 0 THEN quit(s1, s1.p, Farewell) ELSE s1

\* Mutant: building a session for a new connection clears shuttingDown.
buildProtocol_clearsFlag(s) ==
    LET new == [IrcStatusBot__init__ EXCEPT !.control = s.control]
    IN [s EXCEPT !.sessions = Append(@, new), !.p = Len(s.sessions) + 1,
                 !.shuttingDown = FALSE]

\* IrcStatusFactory.buildProtocol
buildProtocol(s) ==
    LET new == [IrcStatusBot__init__ EXCEPT !.control = s.control]
    IN [s EXCEPT !.sessions = Append(@, new), !.p = Len(s.sessions) + 1]

\* ThrottledClientFactory.clientConnectionLost: retry after lostDelay.
ThrottledClientFactory_clientConnectionLost(s) ==
    [s EXCEPT !.reconnect = @ + 1,
              !.eff = Append(@, Eff("callLater", <<"lostDelay", "connector.connect">>))]

\* ThrottledClientFactory.clientConnectionFailed: retry after failedDelay.
ThrottledClientFactory_clientConnectionFailed(s) ==
    [s EXCEPT !.reconnect = @ + 1,
              !.eff = Append(@, Eff("callLater", <<"failedDelay", "connector.connect">>))]

\* Mutant: the loss handler without its shuttingDown test.
clientConnectionLost_noGuard(s) ==
    ThrottledClientFactory_clientConnectionLost(s)

\* IrcStatusFactory.clientConnectionLost
clientConnectionLost(s) ==
    IF s.shuttingDown
    THEN [s EXCEPT !.eff = Append(@, Eff("log.msg", <<NotScheduling>>))]
    ELSE ThrottledClientFactory_clientConnectionLost(s)

\* Mutant: the failure handler never hands the event to the throttled retry.
clientConnectionFailed_noRetry(s) ==
    IF s.shuttingDown
    THEN [s EXCEPT !.eff = Append(@, Eff("log.msg", <<NotScheduling>>))]
    ELSE s

\* IrcStatusFactory.clientConnectionFailed
clientConnectionFailed(s) ==
    IF s.shuttingDown
    THEN [s EXCEPT !.eff = Append(@, Eff("log.msg", <<NotScheduling>>))]
    ELSE ThrottledClientFactory_clientConnectionFailed(s)

-----------------------------------------------------------------------------
(* The events of the transport, each with the handlers it runs.            *)

\* The attempt succeeds: the connector asks the factory for a protocol and
\* connects it.
ConnectSucceeds ==
    /\ connector = "connecting"
    /\ Len(sessions) < MaxSessions
    /\ LET s1 == buildProtocol(Sup)
           s2 == connectionMade(s1, s1.p)
       IN SetSup([s2 EXCEPT !.connector = "connected", !.conn = s1.p])
    /\ lastOp' = Op("buildProtocol", <<>>)
    /\ UNCHANGED <<svcVars, nShutdown, botVars>>

\* The attempt fails.
ConnectFails ==
    /\ connector = "connecting"
    /\ SetSup(clientConnectionFailed([Sup EXCEPT !.connector = "disconnected"]))
    /\ lastOp' = Op("clientConnectionFailed", <<>>)
    /\ UNCHANGED <<svcVars, nShutdown, botVars>>

\* The open connection closes, for any reason: the protocol is told first,
\* then the factory.
ConnectionLost ==
    /\ connector = "connected"
    /\ LET s1 == connectionLost(Sup, conn)
       IN SetSup(clientConnectionLost(
                   [s1 EXCEPT !.connector = "disconnected", !.conn = 0]))
    /\ lastOp' = Op("clientConnectionLost", <<>>)
    /\ UNCHANGED <<svcVars, nShutdown, botVars>>

\* connectionLost is delivered once more to a session that is not bound to
\* the open connection (it lost its connection before).
ConnectionLostAgain ==
    /\ \E i \in 1..Len(sessions) :
           /\ i # conn
           /\ SetSup(connectionLost(Sup, i))
    /\ lastOp' = Op("connectionLost", <<>>)
    /\ UNCHANGED <<svcVars, nShutdown, botVars>>

\* A scheduled connector.connect() comes due; it connects only from the
\* disconnected state.
ReconnectFires ==
    /\ reconnect > 0
    /\ SetSup([Sup EXCEPT !.reconnect = @ - 1,
                          !.connector = IF @ = "disconnected" THEN "connecting" ELSE @])
    /\ lastOp' = Op("connector.connect", <<>>)
    /\ UNCHANGED <<svcVars, nShutdown, botVars>>

\* f.shutdown() called on the supervisor.
Shutdown ==
    /\ f_created
    /\ svc = "constructed"
    /\ nShutdown < MaxShutdownCalls
    /\ nShutdown' = nShutdown + 1
    /\ SetSup(shutdown(Sup))
    /\ lastOp' = Op("shutdown", <<>>)
    /\ UNCHANGED <<svcVars, botVars>>

\* IRC.stopService: shut the supervisor down, then the client service stops
\* and disconnects its connector: an attempt in flight is failed at once, an
\* open connection is closed and reports its loss later.
stopService ==
    /\ running = "running"
    /\ nShutdown < MaxShutdownCalls
    /\ nShutdown' = nShutdown + 1
    /\ running' = "stopped"
    /\ LET s1 == shutdown(Sup)
       IN IF s1.connector = "connecting"
          THEN SetSup(clientConnectionFailed([s1 EXCEPT !.connector = "disconnected"]))
          ELSE SetSup(s1)
    /\ lastOp' = Op("stopService", <<>>)
    /\ UNCHANGED <<args, have_ssl, svc, raised, f_created, client, attached, botVars>>

-----------------------------------------------------------------------------
(* The specification of the service and its supervisor.                    *)

NoBot == [nickname |-> <<"b", "b">>, password |-> None, channels |-> <<>>,
          pm_to_nicks |-> <<>>, noticeOnChannel |-> FALSE]
NoInput == [user |-> None, channel |-> None, message |-> None]

Init ==
    /\ args \in [allowForce : PyValues, allowShutdown : PyValues, useSSL : BOOLEAN]
    /\ have_ssl \in BOOLEAN
    /\ svc = "new"
    /\ raised = "none"
    /\ f_created = FALSE
    /\ client = "none"
    /\ attached = FALSE
    /\ running = "idle"
    /\ shuttingDown = FALSE
    /\ control = "None"
    /\ p = 0
    /\ connector = "disconnected"
    /\ conn = 0
    /\ reconnect = 0
    /\ sessions = <<>>
    /\ nShutdown = 0
    /\ bot = NoBot
    /\ contacts = {}
    /\ ret = <<>>
    /\ inp = NoInput
    /\ lastOp = Op("none", <<>>)
    /\ effects = <<>>

Next ==
    \/ IRC__init__
    \/ setServiceParent
    \/ startService
    \/ ConnectSucceeds
    \/ ConnectFails
    \/ ConnectionLost
    \/ ConnectionLostAgain
    \/ ReconnectFires
    \/ Shutdown
    \/ stopService

Spec == Init /\ [][Next]_vars

-----------------------------------------------------------------------------
(* One session's conversation: IrcStatusBot. A handler maps the record b   *)
(* (the contact registry, the value returned, the calls made) to the       *)
(* record it leaves; the session's configuration is the record bot.        *)

Bot == [contacts |-> contacts, ret |-> <<>>, eff |-> <<>>]

SetBot(b) ==
    /\ contacts' = b.contacts
    /\ ret' = b.ret
    /\ effects' = b.eff

Call(b, kind, a) == [b EXCEPT !.eff = Append(@, Eff(kind, a))]

Nickserv  == <<"N", "i", "c", "k", "s", "e", "r", "v">>
IDENTIFY_ == <<"I", "D", "E", "N", "T", "I", "F", "Y", " ">>

\* StatusBot.getContact: the Contact registered under (user, channel),
\* constructed and registered first if there is none.
StatusBot_getContact(b, user, channel) ==
    LET key == <<user, channel>>
    IN IF key \in b.contacts
       THEN [b EXCEPT !.ret = key]
       ELSE [Call(b, "newContact", key) EXCEPT !.contacts = @ \cup {key}, !.ret = key]

\* Mutant: the channel name is not lowercased.
getContact_channelAsIs(b, user, channel) ==
    StatusBot_getContact(b, IF Truthy(user) THEN Lower(user) ELSE user, channel)

\* IrcStatusBot.getContact
getContact(b, user, channel) ==
    StatusBot_getContact(b,
                         IF Truthy(user) THEN Lower(user) ELSE user,
                         IF Truthy(channel) THEN Lower(channel) ELSE channel)

\* contact.handleMessage(message) / contact.handleAction(data) on the
\* Contact getContact returned.
handleMessage(b, message) == Call(b, "handleMessage", <<b.ret[1], b.ret[2], message>>)
handleAction(b, data)     == Call(b, "handleAction", <<b.ret[1], b.ret[2], data>>)

\* IrcStatusBot.groupChat
groupChat(b, channel, message) ==
    IF bot.noticeOnChannel
    THEN Call(b, "notice", <<channel, Encode(message)>>)
    ELSE b

\* IrcStatusBot.chat
chat(b, user, message) == Call(b, "msg", <<user, Encode(message)>>)

\* IrcStatusBot.groupDescribe
groupDescribe(b, channel, action_) == Call(b, "describe", <<channel, Encode(action_)>>)

\* Mutant: only the "<nickname>:" form addresses the bot.
privmsg_colonOnly(b, user, channel, message) ==
    LET u == SplitFirst(user, "!")
    IN IF channel = bot.nickname
       THEN handleMessage(getContact(b, u, None), message)
       ELSE LET b1 == getContact(b, u, channel)
            IN IF StartsWith(message, bot.nickname \o <<":">>)
               THEN handleMessage(b1, From(message, Len(bot.nickname \o <<":">>)))
               ELSE b1

\* Mutant: a private message is held to the addressing prefix as well.
privmsg_pmNeedsPrefix(b, user, channel, message) ==
    LET u  == SplitFirst(user, "!")
        b1 == getContact(b, u, IF channel = bot.nickname THEN None ELSE channel)
    IN IF \/ StartsWith(message, bot.nickname \o <<":">>)
          \/ StartsWith(message, bot.nickname \o <<",">>)
       THEN handleMessage(b1, From(message, Len(bot.nickname \o <<":">>)))
       ELSE b1

\* IrcStatusBot.privmsg
privmsg(b, user, channel, message) ==
    LET u == SplitFirst(user, "!")
    IN IF channel = bot.nickname
       THEN handleMessage(getContact(b, u, None), message)
       ELSE LET b1 == getContact(b, u, channel)
            IN IF \/ StartsWith(message, bot.nickname \o <<":">>)
                  \/ StartsWith(message, bot.nickname \o <<",">>)
               THEN handleMessage(b1, From(message, Len(bot.nickname \o <<":">>)))
               ELSE b1

\* Mutant: the nickname must start the text.
action_prefixOnly(b, user, channel, data) ==
    LET b1 == getContact(b, SplitFirst(user, "!"), channel)
    IN IF StartsWith(data, bot.nickname) THEN handleAction(b1, data) ELSE b1

\* Mutant: the Contact is looked up only once the nickname is found in the
\* text.
action_contactIfMentioned(b, user, channel, data) ==
    IF Contains(data, bot.nickname)
    THEN handleAction(getContact(b, SplitFirst(user, "!"), channel), data)
    ELSE b

\* IrcStatusBot.action
action(b, user, channel, data) ==
    LET b1 == getContact(b, SplitFirst(user, "!"), channel)
    IN IF Contains(data, bot.nickname) THEN handleAction(b1, data) ELSE b1

\* A configured channel: a bare name, or a dict with 'channel' and 'password'.
Name(c)    == [dict |-> FALSE, channel |-> c, password |-> None]
Dict(c, k) == [dict |-> TRUE, channel |-> c, password |-> k]

\* The loop of signedOn over self.channels, from entry i on.
RECURSIVE JoinAll(_, _)
JoinAll(b, i) ==
    IF i > Len(bot.channels) THEN b
    ELSE LET c == bot.channels[i]
             channel  == c.channel
             password == IF c.dict THEN c.password ELSE None
         IN JoinAll(Call(b, "join", <<channel, password>>), i + 1)

\* The loop of signedOn over self.pm_to_nicks, from entry i on.
RECURSIVE ContactAll(_, _)
ContactAll(b, i) ==
    IF i > Len(bot.pm_to_nicks) THEN b
    ELSE ContactAll(getContact(b, bot.pm_to_nicks[i], None), i + 1)

\* Mutant: the channels are joined before the nickname is identified.
signedOn_joinFirst(b) ==
    LET b1 == JoinAll(b, 1)
        b2 == IF Truthy(bot.password)
              THEN Call(b1, "msg", <<Nickserv, IDENTIFY_ \o bot.password>>)
              ELSE b1
    IN ContactAll(b2, 1)

\* IrcStatusBot.signedOn
signedOn(b) ==
    LET b1 == IF Truthy(bot.password)
              THEN Call(b, "msg", <<Nickserv, IDENTIFY_ \o bot.password>>)
              ELSE b
    IN ContactAll(JoinAll(b1, 1), 1)

ToLog == <<"l", "o", "g">>

\* Mutant: joined goes to the registry with the channel name as received.
joined_channelAsIs(b, channel) ==
    StatusBot_getContact(Call(b, "log", <<ToLog, channel>>), None, channel)

\* IrcStatusBot.joined
joined(b, channel) ==
    getContact(Call(b, "log", <<ToLog, channel>>), None, channel)

\* IrcStatusBot.left
left(b, channel) == Call(b, "log", <<ToLog, channel>>)

\* Mutant: the bot joins the channel again after being kicked.
kickedFrom_rejoin(b, channel, kicker, message) ==
    Call(Call(b, "log", <<ToLog, channel, kicker, message>>),
         "join", <<channel, None>>)

\* IrcStatusBot.kickedFrom
kickedFrom(b, channel, kicker, message) ==
    Call(b, "log", <<ToLog, channel, kicker, message>>)

-----------------------------------------------------------------------------
(* The calls a session receives, each over a set of arguments.              *)

BotStep(b, name, a) ==
    /\ SetBot(b)
    /\ lastOp' = Op(name, a)
    /\ UNCHANGED <<svcVars, supVars, bot, inp>>

OnPrivmsg(U, C, M) ==
    \E u \in U, c \in C, m \in M : BotStep(privmsg(Bot, u, c, m), "privmsg", <<u, c, m>>)

OnAction(U, C, M) ==
    \E u \in U, c \in C, m \in M : BotStep(action(Bot, u, c, m), "action", <<u, c, m>>)

OnSignedOn == BotStep(signedOn(Bot), "signedOn", <<>>)

OnJoined(C) == \E c \in C : BotStep(joined(Bot, c), "joined", <<c>>)

OnLeft(C) == \E c \in C : BotStep(left(Bot, c), "left", <<c>>)

OnKickedFrom(C, U, M) ==
    \E c \in C, u \in U, m \in M :
        BotStep(kickedFrom(Bot, c, u, m), "kickedFrom", <<c, u, m>>)

CallGetContact(U, C) ==
    \E u \in U, c \in C : BotStep(getContact(Bot, u, c), "getContact", <<u, c>>)

CallGroupChat(C, M) ==
    \E c \in C, m \in M : BotStep(groupChat(Bot, c, m), "groupChat", <<c, m>>)

CallChat(U, M) ==
    \E u \in U, m \in M : BotStep(chat(Bot, u, m), "chat", <<u, m>>)

CallGroupDescribe(C, M) ==
    \E c \in C, m \in M : BotStep(groupDescribe(Bot, c, m), "groupDescribe", <<c, m>>)

-----------------------------------------------------------------------------
(* SpecBot: one session, configured in every way, receiving any sequence    *)
(* of calls with arguments from small sets.                                 *)

Nick == <<"b", "b">>

Users    == {<<"A">>, <<"a", "!", "h">>}
Channels == {<<"#", "C">>, <<"#", "c">>}
Texts    == {<<"b", "b", ",", " ">>, <<" ", "b", "b">>}
OutTexts == {<<"h", "U+00E9">>, <<"U+D800", "!">>}

BotConfigs ==
    [nickname        : {Nick},
     password        : {None, <<>>, <<"p", "w">>},
     channels        : {<<>>, <<Dict(<<"#", "c">>, <<"k">>), Name(<<"#", "C">>)>>},
     pm_to_nicks     : {<<>>, <<<<"A">>, <<"a">>>>},
     noticeOnChannel : BOOLEAN]

\* The service and supervisor, left alone: built, connected, one session.
SessionUp ==
    /\ args = [allowForce |-> "False", allowShutdown |-> "False", useSSL |-> FALSE]
    /\ have_ssl = TRUE
    /\ svc = "constructed"
    /\ raised = "none"
    /\ f_created = TRUE
    /\ client = "TCPClient"
    /\ attached = TRUE
    /\ running = "running"
    /\ shuttingDown = FALSE
    /\ control = "None"
    /\ p = 1
    /\ connector = "connected"
    /\ conn = 1
    /\ reconnect = 0
    /\ sessions = <<[IrcStatusBot__init__ EXCEPT !.keepAlive = TRUE]>>
    /\ nShutdown = 0

InitBot ==
    /\ SessionUp
    /\ bot \in BotConfigs
    /\ contacts = {}
    /\ ret = <<>>
    /\ inp = NoInput
    /\ lastOp = Op("none", <<>>)
    /\ effects = <<>>

NextBot ==
    \/ OnPrivmsg(Users, {Nick, <<"#", "C">>}, Texts)
    \/ OnAction(Users, {<<"#", "C">>}, Texts)
    \/ OnSignedOn
    \/ OnJoined(Channels)
    \/ OnLeft({<<"#", "C">>})
    \/ OnKickedFrom({<<"#", "C">>}, {<<"A">>}, {<<" ">>})
    \/ CallGetContact(Users \cup {None}, Channels \cup {None})
    \/ CallGroupChat({<<"#", "C">>}, OutTexts)
    \/ CallChat({<<"A">>}, OutTexts)
    \/ CallGroupDescribe({<<"#", "C">>}, OutTexts)

SpecBot == InitBot /\ [][NextBot]_vars

-----------------------------------------------------------------------------
(* SpecMsg: one inbound event, any sender, channel and text up to          *)
(* MaxMsgLen characters, delivered as a message and as an action.           *)

InitMsg ==
    /\ SessionUp
    /\ bot = [NoBot EXCEPT !.nickname = Nick]
    /\ contacts = {}
    /\ ret = <<>>
    /\ inp \in [user : Users, channel : {Nick, <<"#", "C">>},
                message : StringsUpTo(Alphabet, MaxMsgLen)]
    /\ lastOp = Op("none", <<>>)
    /\ effects = <<>>

NextMsg ==
    \/ OnPrivmsg({inp.user}, {inp.channel}, {inp.message})
    \/ OnAction({inp.user}, {inp.channel}, {inp.message})

SpecMsg == InitMsg /\ [][NextMsg]_vars

-----------------------------------------------------------------------------
(* Properties of the supervisor, checked under Spec.                        *)

EventOps == {"clientConnectionLost", "clientConnectionFailed"}

OnlyLogged == <<Eff("log.msg", <<NotScheduling>>)>>

Retry(op) == <<Eff("callLater",
                   <<IF op = "clientConnectionLost" THEN "lostDelay" ELSE "failedDelay",
                     "connector.connect">>)>>

\* C10 (as claimed): constructing IRC with allowForce or allowShutdown that
\* is not True or False ends in a configuration error, with no supervisor
\* and no transport client created.
C10_NonBooleanRejected ==
    (/\ svc # "new"
     /\ \/ args.allowForce \notin {"True", "False"}
        \/ args.allowShutdown \notin {"True", "False"})
    => (raised = "ConfigErrors" /\ ~f_created /\ client = "none")

\* C1: once shutdown() has been called, no step schedules a reconnect: the
\* number of pending connect calls never grows, no handler calls callLater,
\* and a clientConnectionLost or clientConnectionFailed event only logs.
C1_NoReconnectAfterShutdown ==
    [][shuttingDown' =>
         /\ reconnect' <= reconnect
         /\ \A i \in 1..Len(effects') : effects'[i].k # "callLater"
         /\ (lastOp'.op \in EventOps => effects' = OnlyLogged)]_vars

\* C1 witness: a connection was lost after shutdown() and only logged.
C1_Witness ==
    /\ shuttingDown
    /\ lastOp.op = "clientConnectionLost"
    /\ effects = OnlyLogged
    /\ reconnect = 0
    /\ Len(sessions) >= 1

\* C3: at most one of the sessions built so far is live.
C3_AtMostOneLiveSession ==
    Cardinality({i \in 1..Len(sessions) : sessions[i].live}) <= 1

\* C3 witness: a second session was built, after the first was lost.
C3_Witness ==
    /\ Len(sessions) = 2
    /\ ~sessions[1].live
    /\ sessions[2].live
    /\ p = 2

\* C8 (as claimed): a shutdown() call made when shuttingDown is already true
\* leaves the supervisor as it was and sends no quit.
C8_ShutdownIdempotent ==
    [][(lastOp'.op = "shutdown" /\ shuttingDown) =>
         /\ shuttingDown'
         /\ p' = p
         /\ sessions' = sessions
         /\ \A i \in 1..Len(effects') : effects'[i].k # "quit"]_vars

\* C9: while shutdown() has not been called, every clientConnectionLost and
\* clientConnectionFailed event schedules one more connect through the
\* throttled retry, and a started, disconnected supervisor always has a
\* connect pending.
C9_RetryWhileNotShuttingDown ==
    /\ [][(lastOp'.op \in EventOps /\ ~shuttingDown') =>
            /\ reconnect' = reconnect + 1
            /\ effects' = Retry(lastOp'.op)]_vars
    /\ [](running = "running" /\ ~shuttingDown /\ connector = "disconnected"
            => reconnect > 0)

\* C9 witness: a failed attempt that follows an earlier, lost connection
\* schedules the next attempt.
C9_Witness ==
    /\ ~shuttingDown
    /\ lastOp.op = "clientConnectionFailed"
    /\ Len(sessions) >= 1
    /\ reconnect = 1
    /\ effects = Retry("clientConnectionFailed")

-----------------------------------------------------------------------------
(* Properties of a session, checked under SpecBot and SpecMsg.              *)

\* The calls of one kind among the last handler's calls, in order.
Calls(kind) == SelectSeq(effects, LAMBDA e : e.k = kind)

\* The sender of an inbound event: what precedes the first '!' of the prefix.
Sender(user) ==
    IF \E i \in 1..Len(user) : user[i] = "!"
    THEN SubSeq(user, 1, (CHOOSE i \in 1..Len(user) :
                            /\ user[i] = "!"
                            /\ \A j \in 1..(i - 1) : user[j] # "!") - 1)
    ELSE user

\* text begins with the nickname followed by ':' or ','.
Addressed(text) ==
    /\ Len(text) > Len(bot.nickname)
    /\ \A i \in 1..Len(bot.nickname) : text[i] = bot.nickname[i]
    /\ text[Len(bot.nickname) + 1] \in {":", ","}

\* The nickname occurs somewhere in text.
Mentions(text) ==
    \E i \in 1..(Len(text) - Len(bot.nickname) + 1) :
        \A j \in 1..Len(bot.nickname) : text[i + j - 1] = bot.nickname[j]

\* C2 (as claimed): groupChat makes exactly one send of the encoded text to
\* the channel, a notice if noticeOnChannel and a normal message if not.
C2_GroupChatSendsOnce ==
    lastOp.op = "groupChat" =>
        effects = <<Eff(IF bot.noticeOnChannel THEN "notice" ELSE "msg",
                        <<lastOp.a[1], Encode(lastOp.a[2])>>)>>

\* C4: a privmsg on a channel other than the bot's nickname calls
\* handleMessage iff the message begins with "<nickname>:" or "<nickname>,";
\* the call is made once, on the Contact of (sender, channel), with the
\* message less the nickname and that one separator character.
C4_ChannelMessageDispatch ==
    (lastOp.op = "privmsg" /\ lastOp.a[2] # bot.nickname) =>
        LET user    == lastOp.a[1]
            channel == lastOp.a[2]
            message == lastOp.a[3]
        IN IF Addressed(message)
           THEN Calls("handleMessage") =
                    <<Eff("handleMessage",
                          <<Lower(Sender(user)), Lower(channel),
                            SubSeq(message, Len(bot.nickname) + 2, Len(message))>>)>>
           ELSE Calls("handleMessage") = <<>>

\* C4 witness: "bb, " on a channel reaches the Contact with the text " ", and
\* the Contact is the one of the lowercased sender and channel.
C4_Witness ==
    /\ lastOp = Op("privmsg", <<<<"a", "!", "h">>, <<"#", "C">>, <<"b", "b", ",", " ">>>>)
    /\ Calls("handleMessage") =
           <<Eff("handleMessage", <<<<"a">>, <<"#", "c">>, <<" ">>>>)>>

\* C5: an action calls handleAction iff the nickname occurs in its text; the
\* call is made once, on the Contact of (sender, channel), with the text.
C5_ActionDispatch ==
    lastOp.op = "action" =>
        LET user    == lastOp.a[1]
            channel == lastOp.a[2]
            data    == lastOp.a[3]
        IN IF Mentions(data)
           THEN Calls("handleAction") =
                    <<Eff("handleAction",
                          <<Lower(Sender(user)), Lower(channel), data>>)>>
           ELSE Calls("handleAction") = <<>>

\* C5 witness: an action whose text only ends with the nickname is dispatched.
C5_Witness ==
    /\ lastOp.op = "action"
    /\ lastOp.a[3] = <<" ", "b", "b">>
    /\ Len(Calls("handleAction")) = 1

\* C6: signedOn with a password sends IDENTIFY <password> to Nickserv as its
\* first call, before every join and every new Contact, and only once;
\* without a password (None or empty) it sends nothing to Nickserv.
C6_IdentifyBeforeJoin ==
    lastOp.op = "signedOn" =>
        LET toNickserv == {i \in 1..Len(effects) :
                             effects[i].k = "msg" /\ effects[i].a[1] = Nickserv}
        IN IF bot.password # None /\ bot.password # <<>>
           THEN /\ toNickserv = {1}
                /\ effects[1] = Eff("msg", <<Nickserv, IDENTIFY_ \o bot.password>>)
                /\ \A i \in 1..Len(effects) :
                       effects[i].k \in {"join", "newContact"} => i > 1
           ELSE toNickserv = {}

\* C6 witness: signedOn identified, then joined two channels, then created
\* a Contact.
C6_Witness ==
    /\ lastOp.op = "signedOn"
    /\ bot.password = <<"p", "w">>
    /\ Len(effects) >= 4
    /\ effects[1].k = "msg"
    /\ effects[2].k = "join"
    /\ effects[3].k = "join"
    /\ effects[4].k = "newContact"

\* C7: the registry holds one Contact per lowercased identity and no key
\* with an uppercase character, and getContact returns the Contact whose key
\* is the lowercased (user, channel) it was called with.
C7_ContactsCaseFolded ==
    /\ \A k1 \in contacts, k2 \in contacts :
           (\A n \in 1..2 : Lower(k1[n]) = Lower(k2[n])) => k1 = k2
    /\ \A k \in contacts : \A n \in 1..2 : Lower(k[n]) = k[n]
    /\ lastOp.op = "getContact" =>
           /\ ret = <<Lower(lastOp.a[1]), Lower(lastOp.a[2])>>
           /\ ret \in contacts

\* C7 witness: getContact with an uppercase user and channel returned a
\* Contact that already existed, among several.
C7_Witness ==
    /\ lastOp = Op("getContact", <<<<"A">>, <<"#", "C">>>>)
    /\ ret = <<<<"a">>, <<"#", "c">>>>
    /\ effects = <<>>
    /\ Cardinality(contacts) >= 3

-----------------------------------------------------------------------------
(* Further properties of the service and its supervisor, under Spec.        *)

\* C11: a session has a Control reference only if allowForce is true: with
\* allowForce false (False, or 0, which equals it) the supervisor and every
\* session it built have control None, and a session with a Control
\* reference was built with allowForce true (True, or 1, which equals it).
C11_ControlOnlyIfAllowForce ==
    /\ args.allowForce \in {"False", "0"} =>
           /\ control = "None"
           /\ \A i \in 1..Len(sessions) : sessions[i].control = "None"
    /\ \A i \in 1..Len(sessions) :
           sessions[i].control # "None" => args.allowForce \in {"True", "1"}

\* C11 witness: allowForce is False, the service is attached and two
\* sessions were built, one after the other; neither has a Control reference.
C11_Witness ==
    /\ args.allowForce = "False"
    /\ attached
    /\ Len(sessions) = 2
    /\ sessions[1].control = "None"
    /\ sessions[2].control = "None"

\* C12 (as claimed): once shutdown() has been called, every live session has
\* been told to quit, whether it was live at the call or built after it.
C12_LiveSessionToldToQuit ==
    shuttingDown =>
        \A i \in 1..Len(sessions) : sessions[i].live => sessions[i].quits > 0

\* C14 (as claimed): shutdown() calls quit iff a session is live at the call;
\* with no live session it only sets the flag.
C14_QuitIffLive ==
    lastOp.op = "shutdown" =>
        /\ shuttingDown
        /\ (\E i \in 1..Len(effects) : effects[i].k = "quit")
               <=> (\E i \in 1..Len(sessions) : sessions[i].live)

\* C15: shuttingDown is false at first, never goes back to false, and goes
\* to true only in a step that runs shutdown() (directly or in stopService).
C15_ShuttingDownMonotonic ==
    /\ ~shuttingDown
    /\ [][/\ shuttingDown => shuttingDown'
          /\ (~shuttingDown /\ shuttingDown') =>
                 lastOp'.op \in {"shutdown", "stopService"}]_vars

\* C15 witness: a session was built after shutdown(), and the flag is still
\* true.
C15_Witness ==
    /\ shuttingDown
    /\ lastOp.op = "buildProtocol"

\* C19: a construction that passed the validation of its flags selects the
\* transport: useSSL without TLS support raises RuntimeError and attaches no
\* client, useSSL with TLS support attaches the SSL client, otherwise the
\* TCP client is attached.
C19_TransportSelection ==
    (svc # "new" /\ raised # "ConfigErrors") =>
        IF args.useSSL
        THEN IF have_ssl
             THEN svc = "constructed" /\ raised = "none" /\ client = "SSLClient"
             ELSE svc = "failed" /\ raised = "RuntimeError" /\ client = "none"
        ELSE svc = "constructed" /\ raised = "none" /\ client = "TCPClient"

\* C19 witness: SSL was asked for without TLS support and construction
\* failed with no client attached.
C19_Witness ==
    /\ args.useSSL
    /\ ~have_ssl
    /\ svc = "failed"
    /\ raised = "RuntimeError"
    /\ client = "none"

\* C13: the keepalive call of a session runs exactly while the session is
\* the one bound to the open connection; connectionLost delivered to a
\* session whose keepalive call is not running raises nothing and leaves it
\* not running, and so does connectionLost on a session that never got
\* connectionMade.
C13_KeepAliveIffConnected ==
    /\ \A i \in 1..Len(sessions) :
           sessions[i].keepAlive <=> (connector = "connected" /\ conn = i)
    /\ lastOp.op = "connectionLost" => effects = <<>>
    /\ LET fresh == [Sup EXCEPT !.sessions = <<IrcStatusBot__init__>>]
           after == connectionLost(fresh, 1)
       IN after.eff = <<>> /\ ~after.sessions[1].keepAlive

\* C13 witness: the second session is connected with its keepalive call
\* running, and connectionLost was delivered again to the first, whose
\* keepalive call had been stopped by its first connectionLost.
C13_Witness ==
    /\ lastOp.op = "connectionLost"
    /\ effects = <<>>
    /\ Len(sessions) = 2
    /\ ~sessions[1].keepAlive
    /\ ~sessions[1].live
    /\ sessions[2].keepAlive
    /\ connector = "connected"

-----------------------------------------------------------------------------
(* Further properties of one inbound event, checked under SpecMsg.          *)

\* C16: a privmsg whose channel is the bot's own nickname calls
\* handleMessage once, whatever the text begins with, on the Contact keyed
\* by the sender alone (the prefix up to '!', no channel), with the whole
\* text.
C16_PrivateMessageDispatch ==
    (lastOp.op = "privmsg" /\ lastOp.a[2] = bot.nickname) =>
        LET user    == lastOp.a[1]
            message == lastOp.a[3]
        IN Calls("handleMessage") =
               <<Eff("handleMessage", <<Lower(Sender(user)), None, message>>)>>

\* C16 witness: a private message that does not begin with the nickname
\* reaches the Contact of the sender alone, unchanged.
C16_Witness ==
    /\ lastOp = Op("privmsg", <<<<"a", "!", "h">>, Nick, <<" ", "b", "b">>>>)
    /\ Calls("handleMessage") =
           <<Eff("handleMessage", <<<<"a">>, None, <<" ", "b", "b">>>>)>>

\* The registry key of the Contact of an event's sender on its channel.
EventKey(o) == <<Lower(Sender(o.a[1])), Lower(o.a[2])>>

\* C20: a privmsg on a channel and an action leave the Contact of (sender,
\* channel) in the registry whether or not the text is dispatched; a
\* Contact that was absent is created as the handler's first call, before
\* any handleMessage or handleAction, and nothing else is added.
C20_ContactBeforeAddressing ==
    [][((lastOp'.op = "privmsg" /\ lastOp'.a[2] # bot.nickname)
            \/ lastOp'.op = "action") =>
           /\ contacts' = contacts \cup {EventKey(lastOp')}
           /\ IF EventKey(lastOp') \in contacts
              THEN \A i \in 1..Len(effects') : effects'[i].k # "newContact"
              ELSE /\ Len(effects') >= 1
                   /\ effects'[1] = Eff("newContact", EventKey(lastOp'))
                   /\ \A i \in 2..Len(effects') : effects'[i].k # "newContact"]_vars

\* C20 witness: a channel message that is not addressed to the bot did
\* nothing but create the Contact of its sender on that channel.
C20_Witness ==
    /\ lastOp = Op("privmsg", <<<<"a", "!", "h">>, <<"#", "C">>, <<" ", "b", "b">>>>)
    /\ effects = <<Eff("newContact", <<<<"a">>, <<"#", "c">>>>)>>
    /\ <<<<"a">>, <<"#", "c">>>> \in contacts

-----------------------------------------------------------------------------
(* Further properties of one session, checked under SpecBot.                *)

\* C17: after signedOn the registry holds a Contact keyed by each
\* pm_to_nicks entry and no channel; after joined(channel) it holds the
\* Contact of that channel and no user; and the registry never holds two
\* channel Contacts whose names differ only in letter case, so a repeated
\* joined adds none.
C17_ContactsWithoutMessage ==
    /\ lastOp.op = "signedOn" =>
           \A i \in 1..Len(bot.pm_to_nicks) :
               <<Lower(bot.pm_to_nicks[i]), None>> \in contacts
    /\ lastOp.op = "joined" => <<None, Lower(lastOp.a[1])>> \in contacts
    /\ \A k1, k2 \in contacts :
           (/\ k1[1] = None /\ k2[1] = None
            /\ k1[2] # None /\ k2[2] # None
            /\ Lower(k1[2]) = Lower(k2[2])) => k1 = k2

\* C17 witness: joined("#C") found the Contact an earlier joined had made
\* under "#c": it logged and created nothing.
C17_Witness ==
    /\ lastOp = Op("joined", <<<<"#", "C">>>>)
    /\ Calls("newContact") = <<>>
    /\ <<None, <<"#", "c">>>> \in contacts
    /\ Cardinality({k \in contacts : k[1] = None /\ k[2] # None}) = 1

\* C18: left and kickedFrom write one log line and nothing else: no command
\* goes out, and the registry, the session's configuration (its channel
\* list included) and the keepalive call are as they were.
C18_LeftAndKickedLogOnly ==
    [][lastOp'.op \in {"left", "kickedFrom"} =>
           /\ Len(effects') = 1
           /\ effects'[1].k = "log"
           /\ contacts' = contacts
           /\ bot' = bot
           /\ sessions' = sessions]_vars

\* C18 witness: the bot was kicked from a channel whose Contact it holds;
\* the Contact is still there and only the log line was written.
C18_Witness ==
    /\ lastOp.op = "kickedFrom"
    /\ <<None, Lower(lastOp.a[1])>> \in contacts
    /\ Len(effects) = 1
    /\ effects[1].k = "log"
    /\ sessions[1].keepAlive

=============================================================================
